---- MODULE Spec2Model ----
(***************************************************************************)
(* Start-up of the canary server (src/src/otserv.cpp).                     *)
(*                                                                         *)
(* Two threads matter: the main thread (main) and the dispatcher thread,   *)
(* which runs the task mainLoader.  They meet at the condition variable    *)
(* g_loaderSignal: main waits on it (no predicate), mainLoader and         *)
(* startupErrorMessage call notify_all on it (without holding the mutex).  *)
(* The process ends by exit(-1) from either thread or by main returning 0. *)
(***************************************************************************)
EXTENDS Integers, Sequences, FiniteSets, TLC

VARIABLES
    mainPc,         \* position of the main thread in main()
    loaderPc,       \* position of the dispatcher thread: idle, run, fatal_*, done
    stage,          \* index into PipelineOrder of the next stage mainLoader runs
    executed,       \* history: the stages mainLoader has run, in order
    failed,         \* history: the stages whose action reported failure
    config,         \* the content of config.lua the run was started with
    gameState,      \* g_game().getGameState()
    worldType,      \* g_game().getWorldType()
    rentPeriod,     \* the RentPeriod_t passed to payHouses
    services,       \* the protocols registered in the ServiceManager
    worker,         \* per worker: started / shutdown requested / joined
    taskQueue,      \* tasks handed to g_dispatcher and not yet taken
    notifyCount,    \* history: number of g_loaderSignal.notify_all() calls
    wokenBy,        \* history: what ended main's wait: none, notify, spurious
    loaderLockHeld, \* main holds g_loaderLock through g_loaderUniqueLock
    isRunningSeen,  \* history: what is_running() returned to main
    lateAdds,       \* history: services->add calls made after main read is_running()
    keyRead,        \* history: getchar() of startupErrorMessage returned
    webhookSent,    \* history: webhook_send_message was called
    exited,         \* the process has terminated
    exitCode,       \* the exit status, once exited
    exitedBy        \* history: which statement ended the process

vars == <<mainPc, loaderPc, stage, executed, failed, config, gameState, worldType,
          rentPeriod, services, worker, taskQueue, notifyCount, wokenBy,
          loaderLockHeld, isRunningSeen, lateAdds, keyRead, webhookSent,
          exited, exitCode, exitedBy>>

-----------------------------------------------------------------------------
(* Strings the code compares are sequences of one-character strings, so    *)
(* that asLowerCaseString is computed rather than assumed.                 *)

UpperLetters == <<"A","B","C","D","E","F","G","H","I","J","K","L","M",
                  "N","O","P","Q","R","S","T","U","V","W","X","Y","Z">>

LowerLetters == <<"a","b","c","d","e","f","g","h","i","j","k","l","m",
                  "n","o","p","q","r","s","t","u","v","w","x","y","z">>

toLowerChar(c) ==
    IF \E i \in DOMAIN UpperLetters : UpperLetters[i] = c
    THEN LowerLetters[CHOOSE i \in DOMAIN UpperLetters : UpperLetters[i] = c]
    ELSE c

asLowerCaseString(s) == [i \in DOMAIN s |-> toLowerChar(s[i])]

StrPvp == <<"p","v","p">>

StrNoPvp == <<"n","o","-","p","v","p">>

StrPvpEnforced == <<"p","v","p","-","e","n","f","o","r","c","e","d">>

StrYearly == <<"y","e","a","r","l","y">>

StrWeekly == <<"w","e","e","k","l","y">>

StrMonthly == <<"m","o","n","t","h","l","y">>

StrDaily == <<"d","a","i","l","y">>

\* The WORLD_TYPE values a run may be started with.
WorldTypeInputs ==
    { StrPvp,
      <<"P","v","P">>,
      StrNoPvp,
      <<"P","V","P","-","E","n","f","o","r","c","e","d">>,
      <<"i","n","v","a","l","i","d","-","m","o","d","e">> }

\* The HOUSE_RENT_PERIOD values a run may be started with.
RentPeriodInputs ==
    { StrYearly,
      <<"W","e","e","k","l","y">>,
      StrMonthly,
      StrDaily,
      <<"f","o","r","t","n","i","g","h","t","l","y">> }

\* The world type chosen without lower-casing the configured value.
WorldTypeOf_CaseSensitive(s) ==
    IF s = StrPvp THEN "WORLD_TYPE_PVP"
    ELSE IF s = StrNoPvp THEN "WORLD_TYPE_NO_PVP"
    ELSE IF s = StrPvpEnforced THEN "WORLD_TYPE_PVP_ENFORCED"
    ELSE "unknown"

\* mainLoader, lines 351-362: the world type selected, or "unknown".
WorldTypeOf(s) ==
    LET w == asLowerCaseString(s) IN
    IF w = StrPvp THEN "WORLD_TYPE_PVP"
    ELSE IF w = StrNoPvp THEN "WORLD_TYPE_NO_PVP"
    ELSE IF w = StrPvpEnforced THEN "WORLD_TYPE_PVP_ENFORCED"
    ELSE "unknown"

\* The rent period chosen without lower-casing the configured value.
RentPeriodOf_CaseSensitive(s) ==
    IF s = StrYearly THEN "RENTPERIOD_YEARLY"
    ELSE IF s = StrWeekly THEN "RENTPERIOD_WEEKLY"
    ELSE IF s = StrMonthly THEN "RENTPERIOD_MONTHLY"
    ELSE IF s = StrDaily THEN "RENTPERIOD_DAILY"
    ELSE "RENTPERIOD_NEVER"

\* mainLoader, lines 390-403.
RentPeriodOf(s) ==
    LET r == asLowerCaseString(s) IN
    IF r = StrYearly THEN "RENTPERIOD_YEARLY"
    ELSE IF r = StrWeekly THEN "RENTPERIOD_WEEKLY"
    ELSE IF r = StrMonthly THEN "RENTPERIOD_MONTHLY"
    ELSE IF r = StrDaily THEN "RENTPERIOD_DAILY"
    ELSE "RENTPERIOD_NEVER"

-----------------------------------------------------------------------------
(* The pipeline: the statements of mainLoader and loadModules in program   *)
(* order.                                                                  *)

\* The eighteen modulesLoadHelper calls of loadModules after the database.
HelperModules ==
    << "items.otb", "items.xml", "script systems", "data/global.lua",
       "data/stages.lua", "data/startup/startup.lua", "data/npclib/load.lua",
       "data/scripts/libs", "data/XML/vocations.xml", "data/XML/events.xml",
       "data/XML/outfits.xml", "data/XML/familiars.xml",
       "data/XML/imbuements.xml", "data/modules/modules.xml",
       "data/events/events.xml", "data/scripts", "data/monster", "data/npclua" >>

ListenerStages == << "ProtocolGame", "ProtocolLogin", "ProtocolStatus" >>

\* The program order with notify_all issued before the game state is NORMAL.
PipelineOrder_EarlyNotify ==
    << "GAME_STATE_STARTUP", "config.lua", "key.pem", "database connect",
       "database setup", "databaseTasks.start", "optimizeTables" >>
    \o HelperModules
    \o << "loadBoostedCreature", "world type", "main map", "custom map",
          "GAME_STATE_INIT" >>
    \o ListenerStages
    \o << "payHouses", "market", "notify_all", "GAME_STATE_NORMAL", "webhook" >>

\* The program order with the listeners registered before the maps are loaded.
PipelineOrder_EarlyListeners ==
    << "GAME_STATE_STARTUP", "config.lua", "key.pem", "database connect",
       "database setup", "databaseTasks.start", "optimizeTables" >>
    \o HelperModules
    \o << "loadBoostedCreature", "world type" >>
    \o ListenerStages
    \o << "main map", "custom map", "GAME_STATE_INIT" >>
    \o << "payHouses", "market", "GAME_STATE_NORMAL", "webhook", "notify_all" >>

PipelineOrder ==
    << "GAME_STATE_STARTUP", "config.lua", "key.pem", "database connect",
       "database setup", "databaseTasks.start", "optimizeTables" >>
    \o HelperModules
    \o << "loadBoostedCreature", "world type", "main map", "custom map",
          "GAME_STATE_INIT" >>
    \o ListenerStages
    \o << "payHouses", "market", "GAME_STATE_NORMAL", "webhook", "notify_all" >>

Range(s) == { s[i] : i \in DOMAIN s }

\* The position of each stage in the program order.
StageIndex ==
    [ n \in Range(PipelineOrder) |->
        CHOOSE i \in DOMAIN PipelineOrder : PipelineOrder[i] = n ]

IndexOf(name) == StageIndex[name]

\* The stages whose failure calls startupErrorMessage.
MandatoryStages ==
    { "config.lua", "key.pem", "database connect", "database setup",
      "world type", "main map", "custom map" } \cup Range(HelperModules)

\* The stages whose failure is logged (or ignored) and the pipeline goes on.
BestEffortStages == { "optimizeTables" } \cup Range(ListenerStages)

Workers == { "dispatcher", "scheduler", "databaseTasks" }

FatalExitCode == -1

\* What the parent process sees of exit(code): the low eight bits.
ExitStatus(code) == code % 256

-----------------------------------------------------------------------------
(* Library and collaborator behaviour the two threads rely on.             *)

\* std::condition_variable::notify_all on g_loaderSignal: a thread blocked in
\* wait is released; with no thread waiting the call has no effect.
NotifyAll(pc) == IF pc = "waiting" THEN "woken" ELSE pc

\* ServiceManager::add: the listener is registered unless the bind fails.
ServiceAdd(svcs, protocol, bound) == IF bound THEN svcs \cup {protocol} ELSE svcs

\* ServiceManager::is_running.
is_running(svcs) == svcs # {}

\* modulesLoadHelper without the call of startupErrorMessage: it only logs.
modulesLoadHelper_LogOnly(loaded) == "run"

\* modulesLoadHelper: where the dispatcher thread goes after the load.
modulesLoadHelper(loaded) == IF loaded THEN "run" ELSE "fatal_notify"

\* The inline checks of loadModules and mainLoader that call
\* startupErrorMessage on failure (RSA key, database, world type, maps).
startupCheck(ok) == IF ok THEN "run" ELSE "fatal_notify"

\* The result of a best-effort stage treated like that of a mandatory one.
ignoreResult_Escalating(ok) == IF ok THEN "run" ELSE "fatal_notify"

\* loadModules, lines 198-201, and mainLoader, lines 385-388: the result of
\* optimizeTables is only logged and that of services->add is dropped.
ignoreResult(ok) == "run"

\* The branch of main with its condition inverted.
MainDecision_Inverted(running) == IF running THEN "ns_db_shutdown" ELSE "serving"

\* main, lines 270-279: the branch taken on the result of is_running().
MainDecision(running) == IF running THEN "serving" ELSE "ns_db_shutdown"

\* The shutdown requests of main with the dispatcher's left out.
NoServiceShutdownOrder_NoDispatcher == << "databaseTasks", "databaseTasks" >>

\* main, lines 276-277: the workers asked to shut down when no service runs.
NoServiceShutdownOrder == << "databaseTasks", "dispatcher" >>

\* The joins of main in the opposite order.
JoinOrder_Reversed == << "dispatcher", "databaseTasks", "scheduler" >>

\* main, lines 281-283: the workers joined after serviceManager.run() returns.
JoinOrder == << "scheduler", "databaseTasks", "dispatcher" >>

-----------------------------------------------------------------------------
Init ==
    /\ mainPc = "start_dispatcher"
    /\ loaderPc = "idle"
    /\ stage = 1
    /\ executed = << >>
    /\ failed = {}
    /\ config \in [ worldType : WorldTypeInputs,
                    rentPeriod : RentPeriodInputs,
                    optimizeDatabase : BOOLEAN,
                    mapCustomEnabled : BOOLEAN ]
    /\ gameState = "none"
    /\ worldType = "unset"
    /\ rentPeriod = "unset"
    /\ services = {}
    /\ worker = [ w \in Workers |->
                    [ started |-> FALSE, shutdownRequested |-> FALSE, joined |-> FALSE ] ]
    /\ taskQueue = << >>
    /\ notifyCount = 0
    /\ wokenBy = "none"
    /\ loaderLockHeld = TRUE          \* line 66: locked at static initialisation
    /\ isRunningSeen = "unset"
    /\ lateAdds = 0
    /\ keyRead = FALSE
    /\ webhookSent = FALSE
    /\ exited = FALSE
    /\ exitCode = 0
    /\ exitedBy = "none"

mainVars == <<mainPc, wokenBy, loaderLockHeld, isRunningSeen>>

signalVars == <<notifyCount>>

procVars == <<exited, exitCode, exitedBy>>

gameVars == <<gameState, worldType, rentPeriod, services, webhookSent>>

histVars == <<executed, failed>>

raceVars == <<lateAdds>>

-----------------------------------------------------------------------------
(* The dispatcher thread: mainLoader and loadModules.                      *)

AtStage(name) ==
    /\ ~exited
    /\ loaderPc = "run"
    /\ stage \in DOMAIN PipelineOrder
    /\ PipelineOrder[stage] = name

\* The stage ran, reported ok, and the thread goes to next.
Proceed(name, ok, next) ==
    /\ executed' = Append(executed, name)
    /\ failed' = IF ok THEN failed ELSE failed \cup {name}
    /\ loaderPc' = next
    /\ stage' = IF next = "run" THEN stage + 1 ELSE stage

\* A stage whose condition in config.lua is off: its action is not called.
Skip ==
    /\ stage' = stage + 1
    /\ UNCHANGED <<loaderPc, executed, failed>>

\* The dispatcher thread takes the mainLoader task from its queue.
DispatcherTakeTask ==
    /\ ~exited
    /\ loaderPc = "idle"
    /\ worker["dispatcher"].started
    /\ taskQueue # << >>
    /\ Head(taskQueue) = "mainLoader"
    /\ taskQueue' = Tail(taskQueue)
    /\ loaderPc' = "run"
    /\ UNCHANGED <<stage, histVars, config, gameVars, worker, signalVars,
                   mainVars, raceVars, keyRead, procVars>>

SetGameStateStartup ==
    /\ AtStage("GAME_STATE_STARTUP")
    /\ gameState' = "GAME_STATE_STARTUP"
    /\ Proceed("GAME_STATE_STARTUP", TRUE, "run")
    /\ UNCHANGED <<config, worldType, rentPeriod, services, webhookSent, worker,
                   taskQueue, signalVars, mainVars, raceVars, keyRead, procVars>>

LoadConfig ==
    /\ AtStage("config.lua")
    /\ \E loaded \in BOOLEAN :
          Proceed("config.lua", loaded, modulesLoadHelper(loaded))
    /\ UNCHANGED <<config, gameVars, worker, taskQueue, signalVars, mainVars, raceVars,
                   keyRead, procVars>>

LoadRSAKey ==
    /\ AtStage("key.pem")
    /\ \E ok \in BOOLEAN : Proceed("key.pem", ok, startupCheck(ok))
    /\ UNCHANGED <<config, gameVars, worker, taskQueue, signalVars, mainVars, raceVars,
                   keyRead, procVars>>

ConnectDatabase ==
    /\ AtStage("database connect")
    /\ \E ok \in BOOLEAN : Proceed("database connect", ok, startupCheck(ok))
    /\ UNCHANGED <<config, gameVars, worker, taskQueue, signalVars, mainVars, raceVars,
                   keyRead, procVars>>

CheckDatabaseSetup ==
    /\ AtStage("database setup")
    /\ \E ok \in BOOLEAN : Proceed("database setup", ok, startupCheck(ok))
    /\ UNCHANGED <<config, gameVars, worker, taskQueue, signalVars, mainVars, raceVars,
                   keyRead, procVars>>

StartDatabaseTasks ==
    /\ AtStage("databaseTasks.start")
    /\ worker' = [worker EXCEPT !["databaseTasks"].started = TRUE]
    /\ Proceed("databaseTasks.start", TRUE, "run")
    /\ UNCHANGED <<config, gameVars, taskQueue, signalVars, mainVars, raceVars,
                   keyRead, procVars>>

OptimizeTables ==
    /\ AtStage("optimizeTables")
    /\ IF config.optimizeDatabase
       THEN \E optimized \in BOOLEAN :
               Proceed("optimizeTables", optimized, ignoreResult(optimized))
       ELSE Skip
    /\ UNCHANGED <<config, gameVars, worker, taskQueue, signalVars, mainVars, raceVars,
                   keyRead, procVars>>

LoadModule ==
    /\ \E m \in Range(HelperModules) :
          /\ AtStage(m)
          /\ \E loaded \in BOOLEAN : Proceed(m, loaded, modulesLoadHelper(loaded))
    /\ UNCHANGED <<config, gameVars, worker, taskQueue, signalVars, mainVars, raceVars,
                   keyRead, procVars>>

LoadBoostedCreature ==
    /\ AtStage("loadBoostedCreature")
    /\ Proceed("loadBoostedCreature", TRUE, "run")
    /\ UNCHANGED <<config, gameVars, worker, taskQueue, signalVars, mainVars, raceVars,
                   keyRead, procVars>>

SetWorldType ==
    /\ AtStage("world type")
    /\ LET w == WorldTypeOf(config.worldType) IN
          /\ worldType' = IF w # "unknown" THEN w ELSE worldType
          /\ Proceed("world type", w # "unknown", startupCheck(w # "unknown"))
    /\ UNCHANGED <<config, gameState, rentPeriod, services, webhookSent, worker,
                   taskQueue, signalVars, mainVars, raceVars, keyRead, procVars>>

LoadMainMap ==
    /\ AtStage("main map")
    /\ \E ok \in BOOLEAN : Proceed("main map", ok, startupCheck(ok))
    /\ UNCHANGED <<config, gameVars, worker, taskQueue, signalVars, mainVars, raceVars,
                   keyRead, procVars>>

LoadCustomMap ==
    /\ AtStage("custom map")
    /\ IF config.mapCustomEnabled
       THEN \E ok \in BOOLEAN : Proceed("custom map", ok, startupCheck(ok))
       ELSE Skip
    /\ UNCHANGED <<config, gameVars, worker, taskQueue, signalVars, mainVars, raceVars,
                   keyRead, procVars>>

SetGameStateInit ==
    /\ AtStage("GAME_STATE_INIT")
    /\ gameState' = "GAME_STATE_INIT"
    /\ Proceed("GAME_STATE_INIT", TRUE, "run")
    /\ UNCHANGED <<config, worldType, rentPeriod, services, webhookSent, worker,
                   taskQueue, signalVars, mainVars, raceVars, keyRead, procVars>>

AddService ==
    /\ \E p \in Range(ListenerStages) :
          /\ AtStage(p)
          /\ \E bound \in BOOLEAN :
                /\ services' = ServiceAdd(services, p, bound)
                /\ Proceed(p, bound, ignoreResult(bound))
    /\ lateAdds' = IF isRunningSeen # "unset" THEN lateAdds + 1 ELSE lateAdds
    /\ UNCHANGED <<config, gameState, worldType, rentPeriod, webhookSent, worker,
                   taskQueue, signalVars, mainVars, keyRead, procVars>>

PayHouses ==
    /\ AtStage("payHouses")
    /\ rentPeriod' = RentPeriodOf(config.rentPeriod)
    /\ Proceed("payHouses", TRUE, "run")
    /\ UNCHANGED <<config, gameState, worldType, services, webhookSent, worker,
                   taskQueue, signalVars, mainVars, raceVars, keyRead, procVars>>

CheckMarket ==
    /\ AtStage("market")
    /\ Proceed("market", TRUE, "run")
    /\ UNCHANGED <<config, gameVars, worker, taskQueue, signalVars, mainVars, raceVars,
                   keyRead, procVars>>

GameStart ==
    /\ AtStage("GAME_STATE_NORMAL")
    /\ gameState' = "GAME_STATE_NORMAL"
    /\ Proceed("GAME_STATE_NORMAL", TRUE, "run")
    /\ UNCHANGED <<config, worldType, rentPeriod, services, webhookSent, worker,
                   taskQueue, signalVars, mainVars, raceVars, keyRead, procVars>>

Webhook ==
    /\ AtStage("webhook")
    /\ webhookSent' = TRUE
    /\ Proceed("webhook", TRUE, "run")
    /\ UNCHANGED <<config, gameState, worldType, rentPeriod, services, worker,
                   taskQueue, signalVars, mainVars, raceVars, keyRead, procVars>>

\* What a notify_all does to the main thread and to the history.
Signal ==
    /\ mainPc' = NotifyAll(mainPc)
    /\ wokenBy' = IF mainPc' # mainPc THEN "notify" ELSE wokenBy
    /\ notifyCount' = notifyCount + 1
    /\ UNCHANGED <<loaderLockHeld, isRunningSeen>>

\* mainLoader, line 428.
FinalNotify ==
    /\ AtStage("notify_all")
    /\ Signal
    /\ executed' = Append(executed, "notify_all")
    /\ loaderPc' = "done"
    /\ stage' = stage + 1
    /\ UNCHANGED <<failed, config, gameVars, worker, taskQueue, lateAdds, keyRead,
                   procVars>>

\* startupErrorMessage, lines 133-134.
StartupErrorNotify ==
    /\ ~exited
    /\ loaderPc = "fatal_notify"
    /\ Signal
    /\ loaderPc' = "fatal_getchar"
    /\ UNCHANGED <<stage, histVars, config, gameVars, worker, taskQueue,
                   lateAdds, keyRead, procVars>>

\* startupErrorMessage, line 135: getchar() returns when the operator types.
StartupErrorGetchar ==
    /\ ~exited
    /\ loaderPc = "fatal_getchar"
    /\ keyRead' = TRUE
    /\ loaderPc' = "fatal_exit"
    /\ UNCHANGED <<stage, histVars, config, gameVars, worker, taskQueue,
                   signalVars, mainVars, raceVars, procVars>>

\* startupErrorMessage returning to its caller instead of calling exit.
StartupErrorExit_Returns ==
    /\ ~exited
    /\ loaderPc = "fatal_exit"
    /\ loaderPc' = "run"
    /\ stage' = stage + 1
    /\ UNCHANGED <<histVars, config, gameVars, worker, taskQueue, signalVars,
                   mainVars, raceVars, keyRead, procVars>>

\* startupErrorMessage, line 136.
StartupErrorExit ==
    /\ ~exited
    /\ loaderPc = "fatal_exit"
    /\ exited' = TRUE
    /\ exitCode' = ExitStatus(FatalExitCode)
    /\ exitedBy' = "startupErrorMessage"
    /\ UNCHANGED <<loaderPc, stage, histVars, config, gameVars, worker, taskQueue,
                   signalVars, mainVars, raceVars, keyRead>>

-----------------------------------------------------------------------------
(* The main thread: main().                                                *)

loaderVars == <<loaderPc, stage, executed, failed>>

MainAt(pc) == ~exited /\ mainPc = pc

RequestShutdown(w) == worker' = [worker EXCEPT ![w].shutdownRequested = TRUE]

\* std::thread::join returns once the worker's thread has left its loop; the
\* dispatcher's thread cannot leave it while it is inside mainLoader.
ThreadCanFinish(w) == w = "dispatcher" => loaderPc \in {"idle", "done"}

Join(w) ==
    /\ ThreadCanFinish(w)
    /\ worker' = [worker EXCEPT ![w].joined = TRUE]

\* line 262
DispatcherStart ==
    /\ MainAt("start_dispatcher")
    /\ worker' = [worker EXCEPT !["dispatcher"].started = TRUE]
    /\ mainPc' = "start_scheduler"
    /\ UNCHANGED <<loaderVars, config, gameVars, taskQueue, signalVars, wokenBy,
                   loaderLockHeld, isRunningSeen, lateAdds, keyRead, procVars>>

\* main without the call of g_scheduler.start().
SchedulerStart_Missing ==
    /\ MainAt("start_scheduler")
    /\ mainPc' = "add_task"
    /\ UNCHANGED <<loaderVars, config, gameVars, worker, taskQueue, signalVars,
                   wokenBy, loaderLockHeld, isRunningSeen, lateAdds, keyRead,
                   procVars>>

\* line 263
SchedulerStart ==
    /\ MainAt("start_scheduler")
    /\ worker' = [worker EXCEPT !["scheduler"].started = TRUE]
    /\ mainPc' = "add_task"
    /\ UNCHANGED <<loaderVars, config, gameVars, taskQueue, signalVars, wokenBy,
                   loaderLockHeld, isRunningSeen, lateAdds, keyRead, procVars>>

\* lines 265-266
AddLoaderTask ==
    /\ MainAt("add_task")
    /\ taskQueue' = Append(taskQueue, "mainLoader")
    /\ mainPc' = "wait"
    /\ UNCHANGED <<loaderVars, config, gameVars, worker, signalVars, wokenBy,
                   loaderLockHeld, isRunningSeen, lateAdds, keyRead, procVars>>

\* line 268: wait releases g_loaderLock and blocks, in one step.
WaitBegin ==
    /\ MainAt("wait")
    /\ loaderLockHeld
    /\ loaderLockHeld' = FALSE
    /\ mainPc' = "waiting"
    /\ UNCHANGED <<loaderVars, config, gameVars, worker, taskQueue, signalVars,
                   wokenBy, isRunningSeen, lateAdds, keyRead, procVars>>

\* line 268: a wait without a predicate may also end with no notification.
SpuriousWakeup ==
    /\ MainAt("waiting")
    /\ mainPc' = "woken"
    /\ wokenBy' = "spurious"
    /\ UNCHANGED <<loaderVars, config, gameVars, worker, taskQueue, signalVars,
                   loaderLockHeld, isRunningSeen, lateAdds, keyRead, procVars>>

\* line 268: the released waiter takes g_loaderLock again and wait returns.
WaitReturn ==
    /\ MainAt("woken")
    /\ ~loaderLockHeld
    /\ loaderLockHeld' = TRUE
    /\ mainPc' = "check"
    /\ UNCHANGED <<loaderVars, config, gameVars, worker, taskQueue, signalVars,
                   wokenBy, isRunningSeen, lateAdds, keyRead, procVars>>

\* line 270
CheckRunning ==
    /\ MainAt("check")
    /\ isRunningSeen' = IF is_running(services) THEN "true" ELSE "false"
    /\ mainPc' = MainDecision(is_running(services))
    /\ UNCHANGED <<loaderVars, config, gameVars, worker, taskQueue, signalVars,
                   wokenBy, loaderLockHeld, lateAdds, keyRead, procVars>>

\* lines 275-276
NoServiceFirstShutdown ==
    /\ MainAt("ns_db_shutdown")
    /\ RequestShutdown(NoServiceShutdownOrder[1])
    /\ mainPc' = "ns_dispatcher_shutdown"
    /\ UNCHANGED <<loaderVars, config, gameVars, taskQueue, signalVars, wokenBy,
                   loaderLockHeld, isRunningSeen, lateAdds, keyRead, procVars>>

\* line 277
NoServiceSecondShutdown ==
    /\ MainAt("ns_dispatcher_shutdown")
    /\ RequestShutdown(NoServiceShutdownOrder[2])
    /\ mainPc' = "ns_exit"
    /\ UNCHANGED <<loaderVars, config, gameVars, taskQueue, signalVars, wokenBy,
                   loaderLockHeld, isRunningSeen, lateAdds, keyRead, procVars>>

\* The no-services branch without its exit(-1): main goes on to the joins.
NoServiceExit_FallsThrough ==
    /\ MainAt("ns_exit")
    /\ mainPc' = "join_scheduler"
    /\ UNCHANGED <<loaderVars, config, gameVars, worker, taskQueue, signalVars,
                   wokenBy, loaderLockHeld, isRunningSeen, lateAdds, keyRead,
                   procVars>>

\* line 278
NoServiceExit ==
    /\ MainAt("ns_exit")
    /\ exited' = TRUE
    /\ exitCode' = ExitStatus(FatalExitCode)
    /\ exitedBy' = "no services running"
    /\ UNCHANGED <<loaderVars, config, gameVars, worker, taskQueue, signalVars,
                   mainVars, raceVars, keyRead>>

\* line 273: serviceManager.run() returns once the server is stopped from
\* outside (the stop itself is not in this file).
RunReturns ==
    /\ MainAt("serving")
    /\ mainPc' = "join_scheduler"
    /\ UNCHANGED <<loaderVars, config, gameVars, worker, taskQueue, signalVars,
                   wokenBy, loaderLockHeld, isRunningSeen, lateAdds, keyRead,
                   procVars>>

\* line 281
JoinScheduler ==
    /\ MainAt("join_scheduler")
    /\ Join(JoinOrder[1])
    /\ mainPc' = "join_databaseTasks"
    /\ UNCHANGED <<loaderVars, config, gameVars, taskQueue, signalVars, wokenBy,
                   loaderLockHeld, isRunningSeen, lateAdds, keyRead, procVars>>

\* line 282
JoinDatabaseTasks ==
    /\ MainAt("join_databaseTasks")
    /\ Join(JoinOrder[2])
    /\ mainPc' = "join_dispatcher"
    /\ UNCHANGED <<loaderVars, config, gameVars, taskQueue, signalVars, wokenBy,
                   loaderLockHeld, isRunningSeen, lateAdds, keyRead, procVars>>

\* line 283
JoinDispatcher ==
    /\ MainAt("join_dispatcher")
    /\ Join(JoinOrder[3])
    /\ mainPc' = "return"
    /\ UNCHANGED <<loaderVars, config, gameVars, taskQueue, signalVars, wokenBy,
                   loaderLockHeld, isRunningSeen, lateAdds, keyRead, procVars>>

\* line 284
MainReturn ==
    /\ MainAt("return")
    /\ exited' = TRUE
    /\ exitCode' = ExitStatus(0)
    /\ exitedBy' = "main returned"
    /\ UNCHANGED <<loaderVars, config, gameVars, worker, taskQueue, signalVars,
                   mainVars, raceVars, keyRead>>

-----------------------------------------------------------------------------
\* The steps of the dispatcher thread that need nothing from outside.
LoaderStep ==
    \/ DispatcherTakeTask
    \/ SetGameStateStartup
    \/ LoadConfig
    \/ LoadRSAKey
    \/ ConnectDatabase
    \/ CheckDatabaseSetup
    \/ StartDatabaseTasks
    \/ OptimizeTables
    \/ LoadModule
    \/ LoadBoostedCreature
    \/ SetWorldType
    \/ LoadMainMap
    \/ LoadCustomMap
    \/ SetGameStateInit
    \/ AddService
    \/ PayHouses
    \/ CheckMarket
    \/ GameStart
    \/ Webhook
    \/ FinalNotify
    \/ StartupErrorNotify
    \/ StartupErrorExit

\* The steps of the main thread that need nothing from outside.
MainStep ==
    \/ DispatcherStart
    \/ SchedulerStart
    \/ AddLoaderTask
    \/ WaitBegin
    \/ WaitReturn
    \/ CheckRunning
    \/ NoServiceFirstShutdown
    \/ NoServiceSecondShutdown
    \/ NoServiceExit
    \/ JoinScheduler
    \/ JoinDatabaseTasks
    \/ JoinDispatcher
    \/ MainReturn

\* Steps that wait on the outside world or on the library's discretion: the
\* operator's keystroke, the stop of the server, a spurious wake-up.
EnvStep ==
    \/ StartupErrorGetchar
    \/ RunReturns
    \/ SpuriousWakeup

Next == LoaderStep \/ MainStep \/ EnvStep

Spec == Init /\ [][Next]_vars

\* Both threads are scheduled: a thread that can take a step eventually does.
\* Nothing is assumed of the outside world.
FairSpec == Spec /\ WF_vars(LoaderStep) /\ WF_vars(MainStep)

\* As FairSpec, and the operator eventually answers the prompt of
\* startupErrorMessage ("The program will close after pressing the enter key").
OperatorSpec == FairSpec /\ WF_vars(StartupErrorGetchar)

-----------------------------------------------------------------------------
(* Vocabulary of the properties.                                           *)

FatalPcs == {"fatal_notify", "fatal_getchar", "fatal_exit"}

\* Positions of main before the wait on g_loaderSignal has returned.
BeforeDecisionPcs ==
    {"start_dispatcher", "start_scheduler", "add_task", "wait", "waiting", "woken"}

\* Positions of main inside or after serviceManager.run().
ServingPcs ==
    {"serving", "join_scheduler", "join_databaseTasks", "join_dispatcher", "return"}

NoServicePcs == {"ns_db_shutdown", "ns_dispatcher_shutdown", "ns_exit"}

MandatoryFailed == failed \cap MandatoryStages # {}

BestEffortFailed == failed \cap BestEffortStages # {}

Last(seq) == seq[Len(seq)]

\* A stage whose action config.lua switches off.
SwitchedOff(name) ==
    \/ name = "optimizeTables" /\ ~config.optimizeDatabase
    \/ name = "custom map" /\ ~config.mapCustomEnabled

-----------------------------------------------------------------------------
\* C1: when main evaluates serviceManager.is_running(), every services->add
\* mainLoader will ever perform has completed: no add follows the read.
C1_NoAddAfterInspection == lateAdds = 0

\* C2: a notify_all issued before main started to wait is still observed by
\* the later wait: main is never blocked in wait once the signal was issued.
C2_LateWaiterObservesSignal ==
    (notifyCount > 0 /\ wokenBy = "none") => mainPc # "waiting"

\* C3: on the path of a failed mandatory stage the handshake is never
\* signalled: inside startupErrorMessage no notify_all has been issued.
C3_FatalPathNeverSignals == loaderPc \in FatalPcs => notifyCount = 0

\* C4: main gets past the handshake wait only when the pipeline ran to its end
\* with no mandatory failure; with a mandatory failure main never reaches the
\* is_running() decision.
C4_DecidedImpliesSuccess ==
    /\ wokenBy = "notify" => (loaderPc = "done" /\ ~MandatoryFailed)
    /\ MandatoryFailed => isRunningSeen = "unset"

\* The invariant part of C5.
MandatoryFailureStopsPipeline ==
    \A s \in failed \cap MandatoryStages :
        /\ loaderPc \in FatalPcs
        /\ stage = IndexOf(s)
        /\ Last(executed) = s
        /\ \A i \in DOMAIN PipelineOrder :
              i > IndexOf(s) => PipelineOrder[i] \notin Range(executed)
        /\ mainPc \notin ServingPcs
        /\ exited => (exitCode # 0 /\ exitedBy # "main returned")

\* C5: once a mandatory stage has failed no later stage of the pipeline ever
\* executes, main never serves, and the process terminates with a non-zero
\* exit status (it terminates once the operator's keystroke arrives, or
\* earlier through main).
C5_MandatoryFailureIsFatal ==
    /\ []MandatoryFailureStopsPipeline
    /\ MandatoryFailed ~> (exited /\ exitCode # 0)

C5_Witness ==
    /\ "data/monster" \in failed
    /\ "optimizeTables" \in failed
    /\ exited
    /\ exitedBy = "startupErrorMessage"
    /\ exitCode = 255

ExecutedInOrder ==
    \A i \in 1 .. (Len(executed) - 1) :
        IndexOf(executed[i]) < IndexOf(executed[i + 1])

\* The invariant part of C6.
BestEffortFailureGoesOn ==
    /\ ExecutedInOrder
    /\ \A s \in failed \cap BestEffortStages :
          /\ stage > IndexOf(s)
          /\ \A i \in (IndexOf(s) + 1) .. (stage - 1) :
                PipelineOrder[i] \in Range(executed) \/ SwitchedOff(PipelineOrder[i])
          /\ loaderPc \in FatalPcs => Last(executed) \in MandatoryStages
          /\ loaderPc = "done" =>
                /\ stage = Len(PipelineOrder) + 1
                /\ Last(executed) = "notify_all"
                /\ notifyCount = 1

\* C6: a failed best-effort stage (optimizeTables, a listener bind) never
\* stops the pipeline: the stages after it run in declaration order, and the
\* pipeline goes on to its final notify_all unless a later mandatory stage
\* fails or the process is ended by the main thread.
C6_BestEffortFailureContinues ==
    /\ []BestEffortFailureGoesOn
    /\ BestEffortFailed ~> (loaderPc = "done" \/ MandatoryFailed \/ exited)

C6_Witness ==
    /\ loaderPc = "done"
    /\ "optimizeTables" \in failed
    /\ "ProtocolLogin" \in failed
    /\ services = {"ProtocolGame", "ProtocolStatus"}
    /\ notifyCount = 1

\* The invariant part of C7.
NoServiceNeverServes ==
    isRunningSeen = "false" =>
        /\ mainPc \in NoServicePcs
        /\ exited => exitCode # 0

\* C7: when is_running() is false at main's decision (in particular when the
\* pipeline completed and all three binds failed), serviceManager.run() is
\* never entered and the process exits with a non-zero status.
C7_NoServiceExitsNonZero ==
    /\ []NoServiceNeverServes
    /\ (isRunningSeen = "false") ~> (exited /\ exitCode # 0)

C7_Witness ==
    /\ loaderPc = "done"
    /\ Range(ListenerStages) \subseteq failed
    /\ wokenBy = "notify"
    /\ isRunningSeen = "false"
    /\ exited
    /\ exitedBy = "no services running"
    /\ exitCode = 255

\* C8 (as claimed): on the no-services-running outcome the scheduler, the
\* database-task worker and the dispatcher all got a shutdown request before
\* the process exited.
C8_AllWorkersShutdownRequested ==
    exitedBy = "no services running" =>
        \A w \in Workers : worker[w].shutdownRequested

\* C8 (amended): on the no-services-running outcome the database-task worker
\* and the dispatcher got a shutdown request before the process exited; the
\* scheduler got none.
C8_TwoWorkersShutdownRequested ==
    exitedBy = "no services running" =>
        /\ worker["databaseTasks"].shutdownRequested
        /\ worker["dispatcher"].shutdownRequested
        /\ ~worker["scheduler"].shutdownRequested

C8_Witness ==
    /\ exited
    /\ exitedBy = "no services running"
    /\ loaderPc = "done"
    /\ worker["scheduler"].started
    /\ worker["databaseTasks"].started

\* C9: when all stages succeeded and at least one listener is registered, main
\* eventually leaves the wait, sees is_running() true and enters run().  (Stated
\* for the executions in which no wake-up of main was spurious.)
C9_EventuallyServing ==
    (loaderPc = "done" /\ services # {} /\ wokenBy # "spurious")
        ~> (isRunningSeen = "true")

\* C10: after a mandatory-stage failure the process never exits before the
\* keystroke read of startupErrorMessage has completed.  (Stated for the
\* executions in which no wake-up of main was spurious.)
C10_NoExitBeforeKeystroke ==
    (exited /\ MandatoryFailed /\ wokenBy # "spurious") => keyRead

\* C11: after serviceManager.run() has returned the workers are joined in the
\* order scheduler, database-task worker, dispatcher: the scheduler's join has
\* completed whenever the dispatcher's join has returned.
C11_JoinOrder ==
    /\ worker["dispatcher"].joined => worker["databaseTasks"].joined
    /\ worker["databaseTasks"].joined => worker["scheduler"].joined
    /\ (\E w \in Workers : worker[w].joined) => isRunningSeen = "true"
    /\ exitedBy = "main returned" => \A w \in Workers : worker[w].joined

C11_Witness ==
    /\ mainPc = "join_dispatcher"
    /\ worker["scheduler"].joined
    /\ worker["databaseTasks"].joined
    /\ ~worker["dispatcher"].joined

\* The pipeline task has been handed to the dispatcher (line 265 has run).
PipelineSubmitted == mainPc \notin {"start_dispatcher", "start_scheduler", "add_task"}

\* C12 (as claimed): the dispatcher, the scheduler and the database-task worker
\* are all running before the pipeline is submitted; no worker is started
\* after the task has been enqueued.
C12_AllWorkersRunningBeforeSubmit ==
    PipelineSubmitted => \A w \in Workers : worker[w].started

\* C12 (amended): the dispatcher and the scheduler are running before the
\* pipeline is submitted; the database-task worker is started after it, by the
\* pipeline itself (loadModules, after the database checks), and by nothing
\* else.
C12_MainWorkersRunningBeforeSubmit ==
    /\ PipelineSubmitted =>
          (worker["dispatcher"].started /\ worker["scheduler"].started)
    /\ worker["databaseTasks"].started <=>
          "databaseTasks.start" \in Range(executed)
    /\ worker["databaseTasks"].started =>
          (PipelineSubmitted /\ "database setup" \in Range(executed))

C12_Witness ==
    /\ mainPc = "waiting"
    /\ worker["dispatcher"].started
    /\ worker["scheduler"].started
    /\ worker["databaseTasks"].started

\* The invariant part of C13.
AtMostOneSignal ==
    /\ notifyCount <= 1
    /\ "notify_all" \in Range(executed) => ~MandatoryFailed
    /\ wokenBy = "notify" => notifyCount = 1

\* C13: the handshake signal is issued at most once (by startupErrorMessage or
\* by the last step of the pipeline, never both), and main is released from
\* its wait at most once.
C13_SignalAtMostOnce ==
    /\ []AtMostOneSignal
    /\ [][wokenBy # "none" => wokenBy' = wokenBy]_vars
    /\ [][mainPc \notin {"wait", "waiting"} => mainPc' # "waiting"]_vars

C13_Witness ==
    /\ notifyCount = 1
    /\ MandatoryFailed
    /\ wokenBy = "notify"
    /\ mainPc = "check"

AllJoined == \A w \in Workers : worker[w].joined

\* C14: the exit status is 0 only when the serve loop was entered and left and
\* the scheduler, the database-task worker and the dispatcher were all joined;
\* every run with a mandatory-stage failure or with no service running ends
\* with the status of exit(-1).
C14_ExitCodes ==
    exited =>
        /\ exitCode = 0 <=> exitedBy = "main returned"
        /\ exitCode = 0 => (isRunningSeen = "true" /\ AllJoined /\ ~MandatoryFailed)
        /\ (MandatoryFailed \/ isRunningSeen = "false") => exitCode = 255

C14_Witness ==
    /\ exited
    /\ exitCode = 0
    /\ loaderPc = "done"
    /\ AllJoined

\* The value of WORLD_TYPE the run was started with is one of the spellings of
\* pvp, no-pvp, pvp-enforced.
ConfiguredWorldType ==
    IF config.worldType \in { <<"p","v","p">>, <<"P","v","P">> }
    THEN "WORLD_TYPE_PVP"
    ELSE IF config.worldType = <<"n","o","-","p","v","p">>
    THEN "WORLD_TYPE_NO_PVP"
    ELSE IF config.worldType = <<"P","V","P","-","E","n","f","o","r","c","e","d">>
    THEN "WORLD_TYPE_PVP_ENFORCED"
    ELSE "invalid"

\* C15: pvp, no-pvp and pvp-enforced (in any letter case) each set their world
\* type without a fatal error; any other value is a fatal error: the thread
\* stays in startupErrorMessage, no service is ever registered and any exit is
\* non-zero.
C15_WorldTypeSelector ==
    "world type" \in Range(executed) =>
        IF ConfiguredWorldType # "invalid"
        THEN /\ worldType = ConfiguredWorldType
             /\ "world type" \notin failed
             /\ stage > IndexOf("world type")
        ELSE /\ worldType = "unset"
             /\ "world type" \in failed
             /\ loaderPc \in FatalPcs
             /\ stage = IndexOf("world type")
             /\ services = {}
             /\ mainPc \notin ServingPcs
             /\ exited => exitCode # 0

C15_Witness ==
    /\ config.worldType = <<"i","n","v","a","l","i","d","-","m","o","d","e">>
    /\ "world type" \in failed
    /\ exited
    /\ exitedBy = "startupErrorMessage"
    /\ services = {}

C15_WitnessAccepted ==
    /\ config.worldType = <<"P","V","P","-","E","n","f","o","r","c","e","d">>
    /\ worldType = "WORLD_TYPE_PVP_ENFORCED"
    /\ loaderPc = "done"

\* The rent period named by the value of HOUSE_RENT_PERIOD the run was started
\* with.
ConfiguredRentPeriod ==
    IF config.rentPeriod = <<"y","e","a","r","l","y">> THEN "RENTPERIOD_YEARLY"
    ELSE IF config.rentPeriod = <<"W","e","e","k","l","y">> THEN "RENTPERIOD_WEEKLY"
    ELSE IF config.rentPeriod = <<"m","o","n","t","h","l","y">> THEN "RENTPERIOD_MONTHLY"
    ELSE IF config.rentPeriod = <<"d","a","i","l","y">> THEN "RENTPERIOD_DAILY"
    ELSE "RENTPERIOD_NEVER"

\* C16: yearly, weekly, monthly and daily select their period and every other
\* value selects RENTPERIOD_NEVER; the selection is never a fatal error: the
\* pipeline goes on to its remaining stages and the process is not ended by
\* startupErrorMessage.
C16_RentPeriodSelector ==
    /\ "payHouses" \in Range(executed) =>
          /\ rentPeriod = ConfiguredRentPeriod
          /\ "payHouses" \notin failed
          /\ loaderPc \in {"run", "done"}
          /\ stage > IndexOf("payHouses")
          /\ exitedBy # "startupErrorMessage"
    /\ "payHouses" \notin Range(executed) => rentPeriod = "unset"

C16_Witness ==
    /\ config.rentPeriod = <<"f","o","r","t","n","i","g","h","t","l","y">>
    /\ rentPeriod = "RENTPERIOD_NEVER"
    /\ loaderPc = "done"
    /\ exited
    /\ exitCode = 0

C18_NoServiceJoinsBeforeExit ==
    exitedBy = "no services running" =>
        \A w \in Workers : worker[w].shutdownRequested => worker[w].joined

\* C19: whenever startupErrorMessage is entered the service set is empty (every
\* mandatory check precedes the first services->add), so a main thread released
\* on the fatal path sees is_running() false and never enters the serve loop.
C19_FatalImpliesNoService ==
    /\ \A m \in MandatoryStages : \A l \in Range(ListenerStages) :
          IndexOf(m) < IndexOf(l)
    /\ (loaderPc \in FatalPcs \/ MandatoryFailed) =>
          /\ services = {}
          /\ isRunningSeen # "true"
          /\ mainPc \notin ServingPcs

C19_Witness ==
    /\ loaderPc = "fatal_getchar"
    /\ "custom map" \in failed
    /\ wokenBy = "notify"
    /\ isRunningSeen = "false"

\* C20: a shutdown request is only ever issued to a worker that has been
\* started; g_databaseTasks.shutdown() is never reached while
\* g_databaseTasks.start() has not run.  (Stated for the executions in which no
\* wake-up of main was spurious.)
C20_ShutdownOnlyIfStarted ==
    wokenBy # "spurious" =>
        \A w \in Workers : worker[w].shutdownRequested => worker[w].started

====
